---- MODULE Spec2Model ----
(***************************************************************************)
(* HCS thermal analysis: the spreadsheet pipeline of                       *)
(* src/utils/excelProcessor.ts and the App component that drives it.       *)
(*                                                                         *)
(* Numbers.  A JavaScript number is modelled as an extended rational       *)
(* [n, d]: d > 0 for a finite value n/d in lowest terms, [1,0] for         *)
(* Infinity, [-1,0] for -Infinity and [0,0] for NaN.  Rounding error and   *)
(* the sign of zero are not modelled.                                      *)
(*                                                                         *)
(* Values.  A spreadsheet cell, a metric or a column entry is a record     *)
(* [t, n, d, s]: t = "number" with the number [n, d], t = "string" with    *)
(* the text s, or t = "null" (absent / empty).  A text is the sequence of  *)
(* its characters, so that parseFloat reads it character by character.     *)
(*                                                                         *)
(* Arrays are sequences; the code's 0-based index i is position i + 1.     *)
(***************************************************************************)
EXTENDS Integers, Sequences, FiniteSets, TLC

VARIABLES
    thermalIn,      \* processThermalData's arguments [tempData, refTempAt60s]
    thermalOut,     \* <<>> before the call, <<its outcome>> after it
    physIn,         \* calculatePhysicalProperties' argument
    physOut,        \* <<>> before the call, <<its result>> after it
    mergeIn,        \* appendToTemplate's parsed sheet and arguments
    mergeOut,       \* <<>> before the merge, <<the merged sheetData>> after it
    readIn,         \* readExcelColumn's parsed sheet and column index
    readOut,        \* <<>> before the read, <<the column>> after it
    status,         \* App: ProcessStatus
    result,         \* App: <<>> for null, <<ProcessingResult>> otherwise
    errorMsg,       \* App: <<>> for null, <<message>> otherwise
    sourceFile,     \* App: <<>> for null, <<File>> otherwise
    templateFile,   \* App: <<>> for null, <<File>> otherwise
    form,           \* App: the ten text fields
    runs,           \* the handleProcess calls in flight, oldest first: where each
                    \* waits, and its locals
    trace           \* the stages the most recently started run went through

thermalVars == <<thermalIn, thermalOut>>
physVars == <<physIn, physOut>>
mergeVars == <<mergeIn, mergeOut>>
readVars == <<readIn, readOut>>
appVars == <<status, result, errorMsg, sourceFile, templateFile, form, runs, trace>>
vars == <<thermalIn, thermalOut, physIn, physOut, mergeIn, mergeOut,
          readIn, readOut,
          status, result, errorMsg, sourceFile, templateFile, form, runs, trace>>

----------------------------------------------------------------------------
(* Bounds of the model *)

\* longest column whose cells are enumerated one by one
MaxLen == 3
\* longest enumerated row of a template sheet
MaxRowLen == 2

----------------------------------------------------------------------------
(* JavaScript numbers *)

RECURSIVE GCD(_, _)
GCD(a, b) == IF b = 0 THEN a ELSE GCD(b, a % b)

AbsInt(x) == IF x < 0 THEN -x ELSE x
SignInt(x) == IF x < 0 THEN -1 ELSE IF x > 0 THEN 1 ELSE 0

Norm(n, d) ==
    IF d = 0 THEN [n |-> SignInt(n), d |-> 0]
    ELSE LET nn == IF d < 0 THEN -n ELSE n
             dd == AbsInt(d)
             g  == GCD(AbsInt(nn), dd)
         IN  [n |-> nn \div g, d |-> dd \div g]

Whole(x) == [n |-> x, d |-> 1]
Infinity == [n |-> 1, d |-> 0]
NegInfinity == [n |-> -1, d |-> 0]
NaN == [n |-> 0, d |-> 0]

isNaN(a) == a.n = 0 /\ a.d = 0
isFinite(a) == a.d > 0

Neg(a) == [n |-> -a.n, d |-> a.d]
MathAbs(a) == [n |-> AbsInt(a.n), d |-> a.d]

Add(a, b) ==
    IF isNaN(a) \/ isNaN(b) THEN NaN
    ELSE IF a.d = 0 /\ b.d = 0 THEN (IF a.n = b.n THEN a ELSE NaN)
    ELSE IF a.d = 0 THEN a
    ELSE IF b.d = 0 THEN b
    ELSE Norm(a.n * b.d + b.n * a.d, a.d * b.d)

Sub(a, b) == Add(a, Neg(b))

\* finite factors are cancelled crosswise before they are multiplied
Mul(a, b) ==
    IF a.d = 0 \/ b.d = 0 THEN Norm(SignInt(a.n) * SignInt(b.n), 0)
    ELSE LET g1 == GCD(AbsInt(a.n), b.d)
             g2 == GCD(AbsInt(b.n), a.d)
         IN  Norm((a.n \div g1) * (b.n \div g2), (a.d \div g2) * (b.d \div g1))

Recip(a) == IF a.n < 0 THEN [n |-> -a.d, d |-> -a.n] ELSE [n |-> a.d, d |-> a.n]

Div(a, b) == Mul(a, Recip(b))

Lt(a, b) ==
    /\ ~isNaN(a)
    /\ ~isNaN(b)
    /\ IF a.d = 0 /\ b.d = 0 THEN a.n < b.n ELSE a.n * b.d < b.n * a.d

Gt(a, b) == Lt(b, a)
Ge(a, b) == ~isNaN(a) /\ ~isNaN(b) /\ ~Lt(a, b)

\* Number.MAX_VALUE: the largest finite number.  The model's finite numbers
\* all lie far below it.
MAX_VALUE == 1000000

----------------------------------------------------------------------------
(* Values: number | string | null *)

Num(a) == [t |-> "number", n |-> a.n, d |-> a.d, s |-> <<>>]
Str(x) == [t |-> "string", n |-> 0, d |-> 0, s |-> x]
Null == [t |-> "null", n |-> 0, d |-> 0, s |-> <<>>]
NumOf(v) == [n |-> v.n, d |-> v.d]
N(x) == Num(Whole(x))
NA == Str(<<"N", "/", "A">>)

\* the date of the run, as the date input holds it
Today == <<"2", "0", "2", "4", "-", "0", "5", "-", "0", "1">>

----------------------------------------------------------------------------
(* parseFloat *)

Digits == {"0", "1", "2", "3", "4", "5", "6", "7", "8", "9"}

DigitVal(c) ==
    CASE c = "0" -> 0 [] c = "1" -> 1 [] c = "2" -> 2 [] c = "3" -> 3
      [] c = "4" -> 4 [] c = "5" -> 5 [] c = "6" -> 6 [] c = "7" -> 7
      [] c = "8" -> 8 [] c = "9" -> 9

RECURSIVE Pow10(_)
Pow10(k) == IF k = 0 THEN 1 ELSE 10 * Pow10(k - 1)

\* the text from position i on (positions count from 1)
From(str, i) == SubSeq(str, i, Len(str))

StartsWith(str, prefix) ==
    Len(str) >= Len(prefix) /\ SubSeq(str, 1, Len(prefix)) = prefix

\* the number of leading characters of str that lie in set
RECURSIVE CountLeading(_, _)
CountLeading(str, set) ==
    IF str # <<>> /\ Head(str) \in set THEN 1 + CountLeading(Tail(str), set) ELSE 0

\* the value of a run of digits
RECURSIVE DigitsValue(_)
DigitsValue(ds) ==
    IF ds = <<>> THEN 0
    ELSE 10 * DigitsValue(SubSeq(ds, 1, Len(ds) - 1)) + DigitVal(ds[Len(ds)])

\* the largest decimal exponent of a finite number
MaxExponent == 308

\* the exponent part at the head of str, if it is one: "e" or "E", an optional
\* sign and at least one digit; 0 otherwise
ExponentOf(str) ==
    IF str # <<>> /\ Head(str) \in {"e", "E"}
    THEN LET rest   == Tail(str)
             signed == rest # <<>> /\ Head(rest) \in {"+", "-"}
             ds     == IF signed THEN Tail(rest) ELSE rest
             k      == CountLeading(ds, Digits)
             e      == DigitsValue(SubSeq(ds, 1, k))
         IN  IF k = 0 THEN 0
             ELSE IF signed /\ Head(rest) = "-" THEN -e ELSE e
    ELSE 0

\* mantissa * 10^e; beyond the largest exponent the result is Infinity or 0
Scale(mantissa, e) ==
    IF mantissa.n = 0 \/ e = 0 THEN mantissa
    ELSE IF e > MaxExponent THEN Infinity
    ELSE IF e < -MaxExponent - 16 THEN Whole(0)
    ELSE IF e > 0 THEN Mul(mantissa, Whole(Pow10(e)))
    ELSE Div(mantissa, Whole(Pow10(-e)))

\* the decimal literal at the head of str: digits, an optional fraction, an
\* optional exponent; NaN when no digit starts it
DecimalPrefix(str) ==
    LET ni    == CountLeading(str, Digits)
        afterInt == From(str, ni + 1)
        dot   == afterInt # <<>> /\ Head(afterInt) = "."
        fracS == IF dot THEN Tail(afterInt) ELSE <<>>
        nf    == CountLeading(fracS, Digits)
        afterMant == IF dot THEN From(fracS, nf + 1) ELSE afterInt
        mant  == Add(Whole(DigitsValue(SubSeq(str, 1, ni))),
                     Norm(DigitsValue(SubSeq(fracS, 1, nf)), Pow10(nf)))
    IN  IF ni = 0 /\ nf = 0 THEN NaN
        ELSE Scale(mant, ExponentOf(afterMant))

\* parseFloat of a text: leading white space, a sign, then "Infinity" or the
\* longest decimal literal; whatever follows is ignored
parseFloat(str) ==
    LET trimmed  == From(str, CountLeading(str, {" "}) + 1)
        signed   == trimmed # <<>> /\ Head(trimmed) \in {"+", "-"}
        negative == signed /\ Head(trimmed) = "-"
        body     == IF signed THEN Tail(trimmed) ELSE trimmed
        value    == IF StartsWith(body, <<"I", "n", "f", "i", "n", "i", "t", "y">>)
                    THEN Infinity
                    ELSE DecimalPrefix(body)
    IN  IF negative THEN Neg(value) ELSE value

\* arr[i] for the code's 0-based index i
At(arr, i) == arr[i + 1]

----------------------------------------------------------------------------
(* processThermalData *)

AnchorNotFoundMsg == "Could not find reference temperature in the data."

\* Loops over rows lo..hi-1 are evaluated by halving the range: the rows are
\* still visited in increasing order, only the evaluation stays shallow.

\* the body of the anchor loop at row i; st = [anchorIndex, minDiff]
anchorStep(td, ref, st, i) ==
    LET temp == At(td, i) IN
    IF temp # Null
    THEN LET diff == MathAbs(Sub(NumOf(temp), ref)) IN
         IF Lt(diff, st.minDiff)
         THEN [anchorIndex |-> i, minDiff |-> diff]
         ELSE st
    ELSE st

RECURSIVE anchorLoop(_, _, _, _, _)
anchorLoop(td, ref, lo, hi, st) ==
    IF hi <= lo THEN st
    ELSE IF hi = lo + 1 THEN anchorStep(td, ref, st, lo)
    ELSE LET mid  == (lo + hi) \div 2
             half == anchorLoop(td, ref, lo, mid, st)
         \* rows lo..mid-1 are done before rows mid..hi-1 (the test always holds)
         IN  IF half.anchorIndex < mid
             THEN anchorLoop(td, ref, mid, hi, half)
             ELSE half

getTimeForIndex(anchorIndex, idx) == 60 + (idx - anchorIndex)
getIndexForTime(anchorIndex, time) == anchorIndex + (time - 60)

\* the body of the scan at row i; st = <<>> while the loop has not returned,
\* <<v>> once it returned v
findTimeStep(td, anchorIndex, targetTemp, st, i) ==
    IF st # <<>> THEN st
    ELSE LET val == At(td, i) IN
         IF val # Null /\ Ge(NumOf(val), Whole(targetTemp))
         THEN <<N(getTimeForIndex(anchorIndex, i))>>
         ELSE st

RECURSIVE findTimeScan(_, _, _, _, _, _)
findTimeScan(td, anchorIndex, targetTemp, lo, hi, st) ==
    IF hi <= lo THEN st
    ELSE IF hi = lo + 1 THEN findTimeStep(td, anchorIndex, targetTemp, st, lo)
    ELSE LET mid  == (lo + hi) \div 2
             half == findTimeScan(td, anchorIndex, targetTemp, lo, mid, st)
         IN  IF half # <<>>
             THEN half
             ELSE findTimeScan(td, anchorIndex, targetTemp, mid, hi, half)

\* the loop from row `from`, and the "N/A" after it
findTimeLoop(td, anchorIndex, targetTemp, from) ==
    LET st == findTimeScan(td, anchorIndex, targetTemp, from, Len(td), <<>>) IN
    IF st # <<>> THEN st[1] ELSE NA

\* mutant: the scan starts at the anchor row instead of row 0
findTimeForTemp_fromAnchor(td, anchorIndex, targetTemp) ==
    findTimeLoop(td, anchorIndex, targetTemp, anchorIndex)

findTimeForTemp(td, anchorIndex, targetTemp) ==
    findTimeLoop(td, anchorIndex, targetTemp, 0)

\* mutant: the null test is missing, an absent entry is returned as it is
findTempAtTime_noNullTest(td, anchorIndex, targetTime) ==
    LET idx == getIndexForTime(anchorIndex, targetTime) IN
    IF idx >= 0 /\ idx < Len(td)
    THEN At(td, idx)
    ELSE NA

findTempAtTime(td, anchorIndex, targetTime) ==
    LET idx == getIndexForTime(anchorIndex, targetTime) IN
    IF idx >= 0 /\ idx < Len(td) /\ At(td, idx) # Null
    THEN At(td, idx)
    ELSE NA

\* The outcome: threw with a message and no metrics, or a metrics record.
\* anchorIndex is the function's local, kept for the properties about it.
processThermalData(td, ref) ==
    LET anchorIndex ==
            anchorLoop(td, ref, 0, Len(td),
                       [anchorIndex |-> -1, minDiff |-> Whole(MAX_VALUE)]).anchorIndex
    IN
    IF anchorIndex = -1
    THEN [threw |-> TRUE, message |-> AnchorNotFoundMsg, anchorIndex |-> -1,
          metrics |-> <<>>]
    ELSE [threw |-> FALSE, message |-> "", anchorIndex |-> anchorIndex,
          metrics |-> <<[
              timeTo100   |-> findTimeForTemp(td, anchorIndex, 100),
              timeTo150   |-> findTimeForTemp(td, anchorIndex, 150),
              timeTo180   |-> findTimeForTemp(td, anchorIndex, 180),
              timeTo200   |-> findTimeForTemp(td, anchorIndex, 200),
              tempAt1Min  |-> findTempAtTime(td, anchorIndex, 60),
              tempAt2Min  |-> findTempAtTime(td, anchorIndex, 120),
              tempAt5Min  |-> findTempAtTime(td, anchorIndex, 300),
              tempAt10Min |-> findTempAtTime(td, anchorIndex, 600)]>>]

----------------------------------------------------------------------------
(* Inputs of the thermal specification *)

SeqsUpTo(S, k) == UNION {[1..m -> S] : m \in 0..k}

Fill(k, v) == [i \in 1..k |-> v]

\* column entries: absent, temperatures around the four thresholds, and the
\* Infinity that readExcelColumn returns for a text cell such as "Infinity"
TempCells == {Null, N(18), N(20), N(100), N(150), N(180), N(200), Num(Infinity)}
LongCells == {Null, N(20), N(150)}
\* row gaps that bring a sample to 120 s, 300 s and 600 s after the anchor
Gaps == {58, 59, 239, 539}

ShortColumns == SeqsUpTo(TempCells, MaxLen)
LongColumns ==
    {s1 \o Fill(k, Null) \o <<c>> :
        s1 \in SeqsUpTo(LongCells, 2), k \in Gaps, c \in LongCells}
Columns == ShortColumns \cup LongColumns

\* reference temperatures that pass the validation of handleProcess
RefTemps == {Whole(19), Whole(100), Whole(175), Infinity}

ThermalInit ==
    /\ thermalIn \in [tempData : Columns, refTempAt60s : RefTemps]
    /\ thermalOut = <<>>

ThermalCall ==
    /\ thermalOut = <<>>
    /\ thermalOut' = <<processThermalData(thermalIn.tempData, thermalIn.refTempAt60s)>>
    /\ UNCHANGED thermalIn

\* the state of a specification that never calls processThermalData
ThermalIdle ==
    /\ thermalIn = [tempData |-> <<>>, refTempAt60s |-> Whole(0)]
    /\ thermalOut = <<>>

----------------------------------------------------------------------------
(* Properties of processThermalData, under SpecThermal *)

ThermalCalled == thermalOut # <<>>
TOut == thermalOut[1]
TData == thermalIn.tempData
TRef == thermalIn.refTempAt60s
TMetrics == TOut.metrics[1]

Indices(td) == 0..(Len(td) - 1)
Present(td) == {i \in Indices(td) : At(td, i) # Null}
Dist(td, ref, i) == MathAbs(Sub(NumOf(At(td, i)), ref))

\* a is a present index at minimal distance, and the smallest such index
IsFirstNearest(td, ref, a) ==
    /\ a \in Present(td)
    /\ \A j \in Present(td) : ~Lt(Dist(td, ref, j), Dist(td, ref, a))
    /\ \A j \in Present(td) : j < a => Lt(Dist(td, ref, a), Dist(td, ref, j))

AllFinite(td) == \A i \in Present(td) : isFinite(NumOf(At(td, i)))

\* C1: for every column with at least one present value and every reference,
\* the anchor is the index of a present value at minimal distance from the
\* reference, the smallest such index on ties; absent entries are never chosen.
C1_AnchorIsFirstNearest ==
    (ThermalCalled /\ Present(TData) # {}) =>
        (~TOut.threw /\ IsFirstNearest(TData, TRef, TOut.anchorIndex))

\* The part of C1 the code keeps: when the values and the reference are finite.
C1_FiniteAnchorIsFirstNearest ==
    (ThermalCalled /\ Present(TData) # {} /\ AllFinite(TData) /\ isFinite(TRef)) =>
        (~TOut.threw /\ IsFirstNearest(TData, TRef, TOut.anchorIndex))

\* C2: the call fails with the anchor-not-found error iff every entry is absent
\* (the empty column included); with a present entry it returns a metrics
\* record, and a failure returns no metrics record.
C2_ThrowsIffAllAbsent ==
    ThermalCalled =>
        /\ TOut.threw <=> (Present(TData) = {})
        /\ TOut.threw => (TOut.metrics = <<>> /\ TOut.message = AnchorNotFoundMsg)
        /\ ~TOut.threw => Len(TOut.metrics) = 1

\* The part of C2 the code keeps: an all-absent column always fails, a failure
\* never carries metrics, and finite values with a finite reference never fail.
C2_FiniteThrowsIffAllAbsent ==
    ThermalCalled =>
        /\ (Present(TData) = {}) => TOut.threw
        /\ (AllFinite(TData) /\ isFinite(TRef) /\ TOut.threw) => Present(TData) = {}
        /\ TOut.threw => (TOut.metrics = <<>> /\ TOut.message = AnchorNotFoundMsg)
        /\ ~TOut.threw => Len(TOut.metrics) = 1

Min(S) == CHOOSE x \in S : \A y \in S : x <= y

Reaching(td, T) == {j \in Present(td) : Ge(NumOf(At(td, j)), Whole(T))}

TimeToReach(td, anchor, T) ==
    IF Reaching(td, T) = {} THEN NA
    ELSE N(60 + (Min(Reaching(td, T)) - anchor))

\* C3: for T in {100,150,180,200} the time to reach T is 60 + (j - anchorIndex)
\* for the smallest index j of the whole column whose value is present and >= T
\* (rows before the anchor included), and "N/A" if there is none.
C3_TimeToReach ==
    (ThermalCalled /\ ~TOut.threw) =>
        /\ TMetrics.timeTo100 = TimeToReach(TData, TOut.anchorIndex, 100)
        /\ TMetrics.timeTo150 = TimeToReach(TData, TOut.anchorIndex, 150)
        /\ TMetrics.timeTo180 = TimeToReach(TData, TOut.anchorIndex, 180)
        /\ TMetrics.timeTo200 = TimeToReach(TData, TOut.anchorIndex, 200)

\* a row before the anchor reaches 100: the metric is below 60
C3_Witness ==
    /\ ThermalCalled
    /\ ~TOut.threw
    /\ TOut.anchorIndex = 1
    /\ TMetrics.timeTo100 = N(59)
    /\ TMetrics.timeTo200 = NA

TempAt(td, anchor, S) ==
    LET k == anchor + (S - 60) IN
    IF k \in Indices(td) /\ At(td, k).t = "number" THEN At(td, k) ELSE NA

\* C4: for S in {60,120,300,600} the temperature at time S is the column value
\* at index anchorIndex + (S - 60) when that index is in 0..length-1 and the
\* value is present, and otherwise "N/A": never 0, never empty, never a
\* neighbouring row's value.
C4_TempAtTime ==
    (ThermalCalled /\ ~TOut.threw) =>
        /\ TMetrics.tempAt1Min = TempAt(TData, TOut.anchorIndex, 60)
        /\ TMetrics.tempAt2Min = TempAt(TData, TOut.anchorIndex, 120)
        /\ TMetrics.tempAt5Min = TempAt(TData, TOut.anchorIndex, 300)
        /\ TMetrics.tempAt10Min = TempAt(TData, TOut.anchorIndex, 600)
        /\ \A f \in {TMetrics.tempAt1Min, TMetrics.tempAt2Min,
                     TMetrics.tempAt5Min, TMetrics.tempAt10Min} :
              f.t = "number" \/ f = NA

\* the 600 s sample exists, the 120 s index is inside the column but absent,
\* and the 300 s index holds an absent entry too
C4_Witness ==
    /\ ThermalCalled
    /\ ~TOut.threw
    /\ TMetrics.tempAt10Min = N(150)
    /\ TMetrics.tempAt1Min = N(20)
    /\ TOut.anchorIndex + 60 \in Indices(TData)
    /\ At(TData, TOut.anchorIndex + 60) = Null
    /\ TMetrics.tempAt2Min = NA

----------------------------------------------------------------------------
(* calculatePhysicalProperties *)

\* mutant: the guards admit 0, so a zero area or volume is divided by
calculatePhysicalProperties_geq(inputs) ==
    LET areaM2     == Div(Mul(inputs.width, inputs.length), Whole(1000000))
        weightGsm  == IF Ge(areaM2, Whole(0))
                      THEN Div(inputs.weightRaw, areaM2) ELSE Whole(0)
        massKg     == Div(inputs.weightRaw, Whole(1000))
        thicknessM == Div(inputs.thickness, Whole(1000))
        volumeM3   == Mul(areaM2, thicknessM)
        density    == IF Ge(volumeM3, Whole(0))
                      THEN Div(massKg, volumeM3) ELSE Whole(0)
    IN  [weightGsm |-> weightGsm, density |-> density]

calculatePhysicalProperties(inputs) ==
    LET areaM2     == Div(Mul(inputs.width, inputs.length), Whole(1000000))
        weightGsm  == IF Gt(areaM2, Whole(0))
                      THEN Div(inputs.weightRaw, areaM2) ELSE Whole(0)
        massKg     == Div(inputs.weightRaw, Whole(1000))
        thicknessM == Div(inputs.thickness, Whole(1000))
        volumeM3   == Mul(areaM2, thicknessM)
        density    == IF Gt(volumeM3, Whole(0))
                      THEN Div(massKg, volumeM3) ELSE Whole(0)
    IN  [weightGsm |-> weightGsm, density |-> density]

\* finite measurements: zero, negative, fractional and ordinary values
Thicknesses == {Whole(-1), Whole(0), Norm(1, 2), Whole(1), Whole(2)}
Weights == {Whole(-3), Whole(0), Whole(3), Whole(500)}
Widths == {Whole(-2), Whole(0), Whole(3), Whole(1000)}
Lengths == {Whole(-5), Whole(0), Whole(7), Whole(1000)}

PhysInit ==
    /\ physIn \in [thickness : Thicknesses, weightRaw : Weights,
                   width : Widths, length : Lengths]
    /\ physOut = <<>>

PhysCall ==
    /\ physOut = <<>>
    /\ physOut' = <<calculatePhysicalProperties(physIn)>>
    /\ UNCHANGED physIn

PhysIdle ==
    /\ physIn = [thickness |-> Whole(0), weightRaw |-> Whole(0),
                 width |-> Whole(0), length |-> Whole(0)]
    /\ physOut = <<>>

----------------------------------------------------------------------------
(* appendToTemplate: the merge of the result column into the parsed sheet *)

Max2(a, b) == IF a > b THEN a ELSE b

\* Number(x.toFixed(2)): the nearest multiple of 1/100, ties away from zero;
\* Infinity and NaN print and parse back as themselves
toFixed2(a) ==
    IF a.d = 0 THEN a
    ELSE LET m     == AbsInt(a.n)
             whole == m \div a.d
             rest  == (m % a.d) * 100
             q     == rest \div a.d
             r     == rest % a.d
             h     == IF 2 * r >= a.d THEN q + 1 ELSE q
         IN  Norm(SignInt(a.n) * (whole * 100 + h), 100)

\* the 16 values of the new column, in row order
columnValues(sampleName, metrics, physical, calculated) ==
    << Str(physical.evaluationDate),
       Str(sampleName),
       Num(toFixed2(calculated.weightGsm)),
       Num(physical.thickness),
       Num(toFixed2(calculated.density)),
       Str(physical.heatSourceTemp),
       Str(physical.pressure),
       metrics.timeTo100,
       metrics.timeTo150,
       metrics.timeTo180,
       metrics.timeTo200,
       metrics.tempAt1Min,
       metrics.tempAt2Min,
       metrics.tempAt5Min,
       metrics.tempAt10Min,
       Str(physical.remarks) >>

\* the first loop: the longest of the existing rows 0..n-1
RECURSIVE maxColLoop(_, _, _, _)
maxColLoop(sheetData, n, i, maxColCount) ==
    IF ~(i < n) THEN maxColCount
    ELSE IF i < Len(sheetData)
         THEN maxColLoop(sheetData, n, i + 1, Max2(maxColCount, Len(At(sheetData, i))))
         ELSE maxColLoop(sheetData, n, i + 1, maxColCount)

\* mutant: the rows are not padded
padRow_none(row, maxColCount) == row

\* the while loop: nulls are pushed until the row has maxColCount cells
padRow(row, maxColCount) ==
    row \o Fill(Max2(0, maxColCount - Len(row)), Null)

\* mutant: the row is rebuilt from empty cells instead of extended
touchRow_rebuilt(row, maxColCount, value) ==
    Append(Fill(maxColCount, Null), value)

\* one row of the second loop: pad, then push the new value
touchRow(row, maxColCount, value) ==
    Append(padRow(row, maxColCount), value)

\* the second loop, from row i on
RECURSIVE appendLoop(_, _, _, _)
appendLoop(sheetData, values, maxColCount, i) ==
    IF ~(i < Len(values)) THEN sheetData
    ELSE IF i < Len(sheetData)
         THEN appendLoop(
                [sheetData EXCEPT ![i + 1] = touchRow(@, maxColCount, At(values, i))],
                values, maxColCount, i + 1)
         ELSE appendLoop(
                Append(sheetData, touchRow(<<>>, maxColCount, At(values, i))),
                values, maxColCount, i + 1)

\* sheetData after the two loops
appendToTemplate(sheetData, sampleName, metrics, physical, calculated) ==
    LET values      == columnValues(sampleName, metrics, physical, calculated)
        maxColCount == maxColLoop(sheetData, Len(values), 0, 0)
    IN  appendLoop(sheetData, values, maxColCount, 0)

\* Template sheets: ragged rows, fewer than, exactly and more than 16 rows
GridCells == {Null, N(7), Str(<<"x">>)}
Rows == SeqsUpTo(GridCells, MaxRowLen)
SecondRows == {<<>>, <<Str(<<"x">>)>>, <<Null, N(7), N(7)>>}
HeadGrids ==
    {<<>>} \cup {<<r>> : r \in Rows} \cup {<<r1, r2>> : r1 \in Rows, r2 \in SecondRows}
FillerCounts == {0, 14, 16}
FillerRows == {<<>>, <<N(7), Null, Str(<<"x">>), N(7)>>}
TailGrids == {<<>>, << <<>> >>, << <<N(7)>> >>,
              << <<Str(<<"x">>), Null, N(7), Null, Null, Str(<<"x">>)>> >>}
Grids ==
    {h \o Fill(k, r) \o tl :
        h \in HeadGrids, k \in FillerCounts, r \in FillerRows, tl \in TailGrids}

\* Results to merge: metrics of three logs and the properties of two samples
SampleMetrics ==
    { processThermalData(<<N(18), N(20), N(100), N(200)>>, Whole(19)).metrics[1],
      processThermalData(<<N(150), Null, N(20)>>, Whole(19)).metrics[1],
      processThermalData(<<N(20)>> \o Fill(59, Null) \o <<N(150)>>, Whole(19)).metrics[1] }
SamplePhysical ==
    { [thickness |-> Whole(2), weightRaw |-> Whole(500), width |-> Whole(300),
       length |-> Whole(200), heatSourceTemp |-> <<"2", "0", "0", "C">>,
       pressure |-> <<"5", " ", "b", "a", "r">>,
       evaluationDate |-> Today, remarks |-> <<>>],
      [thickness |-> Norm(3, 2), weightRaw |-> Whole(7), width |-> Whole(0),
       length |-> Whole(100), heatSourceTemp |-> <<>>, pressure |-> <<>>,
       evaluationDate |-> Today, remarks |-> <<"o", "k">>] }
MergeArgs ==
    { [sampleName |-> <<"S", "1">>, metrics |-> m, physical |-> ph,
       calculated |-> calculatePhysicalProperties(ph)] :
        m \in SampleMetrics, ph \in SamplePhysical }

MergeInit ==
    /\ mergeIn \in [sheetData : Grids, args : MergeArgs]
    /\ mergeOut = <<>>

MergeCall ==
    /\ mergeOut = <<>>
    /\ mergeOut' = <<appendToTemplate(mergeIn.sheetData, mergeIn.args.sampleName,
                                      mergeIn.args.metrics, mergeIn.args.physical,
                                      mergeIn.args.calculated)>>
    /\ UNCHANGED mergeIn

MergeIdle ==
    /\ mergeIn = [sheetData |-> <<>>, args |-> <<>>]
    /\ mergeOut = <<>>

----------------------------------------------------------------------------
(* readExcelColumn: the column of the parsed sheet *)

\* parseFloat(val) of a cell: a number reads back as itself, a text is parsed,
\* a missing or empty cell gives NaN
parseFloatCell(val) ==
    CASE val.t = "number" -> NumOf(val)
      [] val.t = "string" -> parseFloat(val.s)
      [] OTHER -> NaN

\* row[colIndex]; undefined (here Null) beyond the row's end
CellAt(row, colIndex) == IF colIndex < Len(row) THEN At(row, colIndex) ELSE Null

\* mutant: the number is tested for truth instead of isNaN, so 0 is dropped
readExcelColumn_truthy(jsonData, colIndex) ==
    [i \in 1..Len(jsonData) |->
        LET num == parseFloatCell(CellAt(jsonData[i], colIndex)) IN
        IF isNaN(num) \/ num = Whole(0) THEN Null ELSE Num(num)]

\* jsonData.map(row => ...)
readExcelColumn(jsonData, colIndex) ==
    [i \in 1..Len(jsonData) |->
        LET num == parseFloatCell(CellAt(jsonData[i], colIndex)) IN
        IF isNaN(num) THEN Null ELSE Num(num)]

\* Parsed sheets: cells that are numbers, numerals as text, text that begins
\* with digits, other text, empty text, and cells that are missing
ReadCells == {Null, Str(<<>>), N(20), Str(<<"-", "1", ".", "5">>), NA,
              Str(<<"1", "2", "a">>)}
ReadRows == {<<>>} \cup {<<c>> : c \in ReadCells}
                  \cup {<<Str(<<"t">>), c>> : c \in ReadCells}
ReadGrids == SeqsUpTo(ReadRows, MaxLen)
ColIndexes == {0, 1}

ReadInit ==
    /\ readIn \in [jsonData : ReadGrids, colIndex : ColIndexes]
    /\ readOut = <<>>

ReadCall ==
    /\ readOut = <<>>
    /\ readOut' = <<readExcelColumn(readIn.jsonData, readIn.colIndex)>>
    /\ UNCHANGED readIn

\* the merged sheet is read at the index of the column the merge appended
ReadBack ==
    /\ mergeOut # <<>>
    /\ readOut = <<>>
    /\ readIn' = [jsonData |-> mergeOut[1],
                  colIndex |-> maxColLoop(mergeIn.sheetData, 16, 0, 0)]
    /\ readOut' = <<readExcelColumn(readIn'.jsonData, readIn'.colIndex)>>
    /\ UNCHANGED <<thermalVars, physVars, mergeVars, appVars>>

ReadIdle ==
    /\ readIn = [jsonData |-> <<>>, colIndex |-> 3]
    /\ readOut = <<>>

----------------------------------------------------------------------------
(* App: state, inputs and handlers *)

MsgFiles == "Please upload both the Source Log and Template files."
MsgFields == "Please fill in all sample details and parameters."
MsgNumeric == "Please ensure numeric fields contain valid numbers."
MsgUnknown == "An unknown error occurred during processing."
\* the message of the error XLSX.read throws for a file it cannot decode
MsgParse == "File is not a spreadsheet"

\* A File: whether XLSX.read decodes it, and its first sheet as rows of cells
LogSheet(column) ==
    [i \in 1..Len(column) |-> <<Str(<<"t">>), Null, Null, column[i]>>]

SourceFiles ==
    { [name |-> "log.xlsx", decodes |-> TRUE,
       sheet |-> LogSheet(<<N(18), N(20), N(100), N(200)>>)],
      [name |-> "text.xlsx", decodes |-> TRUE,
       sheet |-> LogSheet(<<NA, Null>>) \o << <<N(5)>> >>],
      [name |-> "broken.xlsx", decodes |-> FALSE, sheet |-> <<>>] }

TemplateFiles ==
    { [name |-> "template.xlsx", decodes |-> TRUE,
       sheet |-> << <<Str(<<"x">>), N(7)>>, <<>> >>],
      [name |-> "broken.xlsx", decodes |-> FALSE, sheet |-> <<>>] }

Fields == {"sampleName", "refTemp", "evaluationDate", "remarks", "thickness",
           "weightRaw", "width", "length", "heatSourceTemp", "pressure"}

\* the texts the operator may put in each field
FieldValues(f) ==
    CASE f = "sampleName"     -> {<<>>, <<"S", "1">>}
      [] f = "refTemp"        -> {<<>>, <<"a", "b", "c">>, <<"1", "9">>}
      [] f = "evaluationDate" -> {<<>>, Today}
      [] f = "thickness"      -> {<<>>, <<"2">>}
      [] f = "weightRaw"      -> {<<>>, <<"5", "0", "0">>}
      [] f = "width"          -> {<<>>, <<"3", "0", "0">>, <<"1", "e", "9", "9", "9">>}
      [] f = "length"         -> {<<>>, <<"2", "0", "0">>}
      [] OTHER                -> {<<>>}

\* what a step of a run leaves of it when the run has ended
NoRun == [pc |-> "none", locals |-> <<>>]

\* the variables of the pure functions' specifications, which App never touches
AppFrame == UNCHANGED <<thermalVars, physVars, mergeVars, readVars>>

\* the output file name, from the date of the run
NewFilename == "HCS_240501.xlsx"

AppInit ==
    /\ status = "IDLE"
    /\ result = <<>>
    /\ errorMsg = <<>>
    /\ sourceFile = <<>>
    /\ templateFile = <<>>
    /\ form = [f \in Fields |-> IF f = "evaluationDate" THEN Today ELSE <<>>]
    /\ runs = <<>>
    /\ trace = <<>>

\* onChange of a field
SetField ==
    \E f \in Fields : \E v \in FieldValues(f) :
        /\ AppFrame
        /\ form[f] # v
        /\ form' = [form EXCEPT ![f] = v]
        /\ UNCHANGED <<status, result, errorMsg, sourceFile, templateFile, runs, trace>>

\* FileUpload: a file is chosen or dropped, or cleared
SelectSourceFile ==
    \E f \in SourceFiles :
        /\ AppFrame
        /\ sourceFile # <<f>>
        /\ sourceFile' = <<f>>
        /\ UNCHANGED <<status, result, errorMsg, templateFile, form, runs, trace>>

ClearSourceFile ==
    /\ AppFrame
    /\ sourceFile # <<>>
    /\ sourceFile' = <<>>
    /\ UNCHANGED <<status, result, errorMsg, templateFile, form, runs, trace>>

SelectTemplateFile ==
    \E f \in TemplateFiles :
        /\ AppFrame
        /\ templateFile # <<f>>
        /\ templateFile' = <<f>>
        /\ UNCHANGED <<status, result, errorMsg, sourceFile, form, runs, trace>>

ClearTemplateFile ==
    /\ AppFrame
    /\ templateFile # <<>>
    /\ templateFile' = <<>>
    /\ UNCHANGED <<status, result, errorMsg, sourceFile, form, runs, trace>>

\* the five parsed numbers, in the order of the isNaN test
ParsedNumbers(fm) ==
    << parseFloat(fm["refTemp"]), parseFloat(fm["thickness"]),
       parseFloat(fm["weightRaw"]), parseFloat(fm["width"]),
       parseFloat(fm["length"]) >>

\* the validation of handleProcess: <<>> when the run may start, otherwise the
\* message of the first failing test
validate(src, tpl, fm) ==
    IF src = <<>> \/ tpl = <<>> THEN <<MsgFiles>>
    ELSE IF \E f \in {"sampleName", "refTemp", "thickness", "weightRaw",
                      "width", "length", "evaluationDate"} : fm[f] = <<>>
    THEN <<MsgFields>>
    ELSE IF \E i \in 1..5 : isNaN(ParsedNumbers(fm)[i]) THEN <<MsgNumeric>>
    ELSE <<>>

\* the locals of a run: what the closure holds (the files and the field texts
\* of the render the button was clicked in), physicalInputs, calculatedProps
runLocals(src, tpl, fm) ==
    LET physicalInputs ==
            [thickness |-> parseFloat(fm["thickness"]),
             weightRaw |-> parseFloat(fm["weightRaw"]),
             width |-> parseFloat(fm["width"]),
             length |-> parseFloat(fm["length"]),
             heatSourceTemp |-> fm["heatSourceTemp"],
             pressure |-> fm["pressure"],
             evaluationDate |-> fm["evaluationDate"],
             remarks |-> fm["remarks"]]
    IN  [sourceFile |-> src[1],
         templateFile |-> tpl[1],
         form |-> fm,
         sampleName |-> fm["sampleName"],
         refTempNum |-> parseFloat(fm["refTemp"]),
         physicalInputs |-> physicalInputs,
         calculatedProps |-> calculatePhysicalProperties(physicalInputs),
         thermalMetrics |-> <<>>]

\* mutant: the button is not disabled while the status is PROCESSING
HandleProcess_alwaysEnabled ==
    /\ AppFrame
    /\ IF validate(sourceFile, templateFile, form) # <<>>
       THEN /\ errorMsg' = validate(sourceFile, templateFile, form)
            /\ UNCHANGED <<status, result, runs, trace>>
       ELSE /\ status' = "PROCESSING"
            /\ errorMsg' = <<>>
            /\ result' = <<>>
            /\ runs' = Append(runs,
                   [pc |-> "awaitLog",
                    locals |-> runLocals(sourceFile, templateFile, form)])
            /\ trace' = <<"readLog:start">>
    /\ UNCHANGED <<sourceFile, templateFile, form>>

\* mutant: a run starts without setResult(null)
HandleProcess_keepResult ==
    /\ AppFrame
    /\ status # "PROCESSING"
    /\ IF validate(sourceFile, templateFile, form) # <<>>
       THEN /\ errorMsg' = validate(sourceFile, templateFile, form)
            /\ UNCHANGED <<status, result, runs, trace>>
       ELSE /\ status' = "PROCESSING"
            /\ errorMsg' = <<>>
            /\ result' = result
            /\ runs' = Append(runs,
                   [pc |-> "awaitLog",
                    locals |-> runLocals(sourceFile, templateFile, form)])
            /\ trace' = <<"readLog:start">>
    /\ UNCHANGED <<sourceFile, templateFile, form>>

\* the Run Analysis button, enabled unless the status is PROCESSING:
\* handleProcess up to its first await
HandleProcess ==
    /\ AppFrame
    /\ status # "PROCESSING"
    /\ IF validate(sourceFile, templateFile, form) # <<>>
       THEN /\ errorMsg' = validate(sourceFile, templateFile, form)
            /\ UNCHANGED <<status, result, runs, trace>>
       ELSE /\ status' = "PROCESSING"
            /\ errorMsg' = <<>>
            /\ result' = <<>>
            /\ runs' = Append(runs,
                   [pc |-> "awaitLog",
                    locals |-> runLocals(sourceFile, templateFile, form)])
            /\ trace' = <<"readLog:start">>
    /\ UNCHANGED <<sourceFile, templateFile, form>>

\* the catch block
caught(message, stage) ==
    [status |-> "ERROR",
     errorMsg |-> <<IF message = "" THEN MsgUnknown ELSE message>>,
     result |-> <<>>,
     run |-> NoRun,
     stages |-> <<stage>>]

\* mutant: the template read starts although processThermalData threw
afterLogRead_ignoreThrow(locals, tempData) ==
    LET thermal == processThermalData(tempData, locals.refTempNum) IN
    [status |-> "PROCESSING", errorMsg |-> <<>>, result |-> <<>>,
     run |-> [pc |-> "awaitTemplate",
              locals |-> [locals EXCEPT !.thermalMetrics = thermal.metrics]],
     stages |-> <<"readLog:done",
                  IF thermal.threw THEN "metrics:fail" ELSE "metrics:done",
                  "merge:start">>]

\* handleProcess from the resolved log read to its second await
afterLogRead(locals, tempData) ==
    LET thermal == processThermalData(tempData, locals.refTempNum) IN
    IF thermal.threw
    THEN [caught(thermal.message, "metrics:fail") EXCEPT
              !.stages = <<"readLog:done", "metrics:fail">>]
    ELSE [status |-> "PROCESSING", errorMsg |-> <<>>, result |-> <<>>,
          run |-> [pc |-> "awaitTemplate",
                   locals |-> [locals EXCEPT !.thermalMetrics = thermal.metrics]],
          stages |-> <<"readLog:done", "metrics:done", "merge:start">>]

\* handleProcess from the resolved template merge to its end
afterMerge(locals, blob) ==
    [status |-> "SUCCESS",
     errorMsg |-> <<>>,
     result |-> <<[sampleName |-> locals.sampleName,
                   thermalMetrics |-> locals.thermalMetrics[1],
                   physicalInputs |-> locals.physicalInputs,
                   calculatedProps |-> locals.calculatedProps,
                   downloadUrl |-> blob,
                   newFilename |-> NewFilename]>>,
     run |-> NoRun,
     stages |-> <<"merge:done">>]

\* runs without its k-th entry
Without(k) == SubSeq(runs, 1, k - 1) \o SubSeq(runs, k + 1, Len(runs))

\* the state a step of the k-th run leaves; status, errorMsg and result are
\* only written where the code writes them
Settle(k, next) ==
    /\ status' = IF next.run.pc = "none" THEN next.status ELSE status
    /\ errorMsg' = IF next.status = "ERROR" THEN next.errorMsg ELSE errorMsg
    /\ result' = IF next.status = "SUCCESS" THEN next.result ELSE result
    /\ runs' = IF next.run.pc = "none" THEN Without(k)
                ELSE [runs EXCEPT ![k] = next.run]
    /\ trace' = trace \o next.stages
    /\ UNCHANGED <<sourceFile, templateFile, form>>

\* the message of reader.error, the failure a FileReader reports; the event
\* that onerror passes to reject does not carry it
ReaderErrorMessage == "The requested file could not be read"

\* reader.onload of readExcelColumn, and what handleProcess does on its result
LogReaderLoad ==
    \E k \in DOMAIN runs :
        /\ AppFrame
        /\ runs[k].pc = "awaitLog"
        /\ IF runs[k].locals.sourceFile.decodes
           THEN Settle(k, afterLogRead(runs[k].locals,
                          readExcelColumn(runs[k].locals.sourceFile.sheet, 3)))
           ELSE Settle(k, caught(MsgParse, "readLog:fail"))

\* mutant: no onerror handler, the promise of the read never settles
LogReaderError_unhandled ==
    \E k \in DOMAIN runs :
        /\ AppFrame
        /\ runs[k].pc = "awaitLog"
        /\ runs' = [runs EXCEPT ![k].pc = "pending"]
        /\ UNCHANGED <<status, result, errorMsg, sourceFile, templateFile, form,
                       trace>>

\* reader.onerror of readExcelColumn: the promise rejects with the event
LogReaderError ==
    \E k \in DOMAIN runs :
        /\ AppFrame
        /\ runs[k].pc = "awaitLog"
        /\ Settle(k, caught("", "readLog:fail"))

\* mutant: the sample name is read from the field as it is when the template
\* has loaded, not from the closure
TemplateReaderLoad_currentName ==
    \E k \in DOMAIN runs :
        /\ AppFrame
        /\ runs[k].pc = "awaitTemplate"
        /\ IF runs[k].locals.templateFile.decodes
           THEN Settle(k, afterMerge([runs[k].locals EXCEPT
                                         !.sampleName = form["sampleName"]],
                    appendToTemplate(runs[k].locals.templateFile.sheet,
                                     form["sampleName"],
                                     runs[k].locals.thermalMetrics[1],
                                     runs[k].locals.physicalInputs,
                                     runs[k].locals.calculatedProps)))
           ELSE Settle(k, caught(MsgParse, "merge:fail"))

\* reader.onload of appendToTemplate, and what handleProcess does on its result
TemplateReaderLoad ==
    \E k \in DOMAIN runs :
        /\ AppFrame
        /\ runs[k].pc = "awaitTemplate"
        /\ IF runs[k].locals.templateFile.decodes
           THEN Settle(k, afterMerge(runs[k].locals,
                    appendToTemplate(runs[k].locals.templateFile.sheet,
                                     runs[k].locals.sampleName,
                                     runs[k].locals.thermalMetrics[1],
                                     runs[k].locals.physicalInputs,
                                     runs[k].locals.calculatedProps)))
           ELSE Settle(k, caught(MsgParse, "merge:fail"))

\* reader.onerror of appendToTemplate
TemplateReaderError ==
    \E k \in DOMAIN runs :
        /\ AppFrame
        /\ runs[k].pc = "awaitTemplate"
        /\ Settle(k, caught("", "merge:fail"))

AppIdle ==
    /\ status = "IDLE"
    /\ result = <<>>
    /\ errorMsg = <<>>
    /\ sourceFile = <<>>
    /\ templateFile = <<>>
    /\ form = [f \in Fields |-> <<>>]
    /\ runs = <<>>
    /\ trace = <<>>

----------------------------------------------------------------------------
(* The specifications of the pure functions *)

InitThermal == ThermalInit /\ PhysIdle /\ MergeIdle /\ ReadIdle /\ AppIdle
NextThermal == ThermalCall /\ UNCHANGED <<physVars, mergeVars, readVars, appVars>>
SpecThermal == InitThermal /\ [][NextThermal]_vars

InitPhys == PhysInit /\ ThermalIdle /\ MergeIdle /\ ReadIdle /\ AppIdle
NextPhys == PhysCall /\ UNCHANGED <<thermalVars, mergeVars, readVars, appVars>>
SpecPhys == InitPhys /\ [][NextPhys]_vars

InitMerge == MergeInit /\ ThermalIdle /\ PhysIdle /\ ReadIdle /\ AppIdle
NextMerge == MergeCall /\ UNCHANGED <<thermalVars, physVars, readVars, appVars>>
SpecMerge == InitMerge /\ [][NextMerge]_vars

InitRead == ReadInit /\ ThermalIdle /\ PhysIdle /\ MergeIdle /\ AppIdle
NextRead == ReadCall /\ UNCHANGED <<thermalVars, physVars, mergeVars, appVars>>
SpecRead == InitRead /\ [][NextRead]_vars

\* the merged sheet read back: appendToTemplate, then readExcelColumn on its
\* sheetData at the index of the appended column
InitRoundTrip == InitMerge
NextRoundTrip == NextMerge \/ ReadBack
SpecRoundTrip == InitRoundTrip /\ [][NextRoundTrip]_vars

----------------------------------------------------------------------------
(* The specification of the application *)

Init == AppInit /\ ThermalIdle /\ PhysIdle /\ MergeIdle /\ ReadIdle

Next ==
    \/ SetField
    \/ SelectSourceFile
    \/ ClearSourceFile
    \/ SelectTemplateFile
    \/ ClearTemplateFile
    \/ HandleProcess
    \/ LogReaderLoad
    \/ LogReaderError
    \/ TemplateReaderLoad
    \/ TemplateReaderError

Spec == Init /\ [][Next]_vars

\* The runs of the application alone: the operator has chosen files and filled
\* in the fields in any of the ways Spec reaches, and from then on only clicks
\* Run Analysis.
Forms ==
    { [f \in Fields |->
          CASE f = "sampleName"     -> v1
            [] f = "refTemp"        -> v2
            [] f = "evaluationDate" -> v3
            [] f = "thickness"      -> v4
            [] f = "weightRaw"      -> v5
            [] f = "width"          -> v6
            [] f = "length"         -> v7
            [] OTHER                -> <<>>] :
        v1 \in FieldValues("sampleName"), v2 \in FieldValues("refTemp"),
        v3 \in FieldValues("evaluationDate"), v4 \in FieldValues("thickness"),
        v5 \in FieldValues("weightRaw"), v6 \in FieldValues("width"),
        v7 \in FieldValues("length") }

RunsInit ==
    /\ status = "IDLE"
    /\ result = <<>>
    /\ errorMsg = <<>>
    /\ sourceFile \in {<<>>} \cup {<<f>> : f \in SourceFiles}
    /\ templateFile \in {<<>>} \cup {<<f>> : f \in TemplateFiles}
    /\ form \in Forms
    /\ runs = <<>>
    /\ trace = <<>>

InitRuns == RunsInit /\ ThermalIdle /\ PhysIdle /\ MergeIdle /\ ReadIdle

NextRuns ==
    \/ HandleProcess
    \/ LogReaderLoad
    \/ LogReaderError
    \/ TemplateReaderLoad
    \/ TemplateReaderError

\* A FileReader that was told to read fires load or error in the end (abort
\* is fired only by reader.abort(), which nothing calls), and the continuation
\* of the awaiting handleProcess then runs.
FairSpec ==
    /\ InitRuns
    /\ [][NextRuns]_vars
    /\ WF_vars(LogReaderError \/ LogReaderLoad)
    /\ WF_vars(TemplateReaderError \/ TemplateReaderLoad)

\* the same fairness over everything the operator can do, edits during a run
\* included
FairSpecWithEdits ==
    /\ Init
    /\ [][Next]_vars
    /\ WF_vars(LogReaderError \/ LogReaderLoad)
    /\ WF_vars(TemplateReaderError \/ TemplateReaderLoad)

----------------------------------------------------------------------------
(* Properties of calculatePhysicalProperties, under SpecPhys *)

PhysCalled == physOut # <<>>
POut == physOut[1]
\* the formulas of the specification, on the inputs
PArea == Div(Mul(physIn.width, physIn.length), Whole(1000000))
PVolume == Mul(PArea, Div(physIn.thickness, Whole(1000)))
PGsm == Div(physIn.weightRaw, PArea)
PDensity == Div(Div(physIn.weightRaw, Whole(1000)), PVolume)

\* C5 as stated: arealWeight = weight / area whenever area is not 0 and 0 when
\* area = 0; density = mass / volume whenever volume is not 0 and 0 when
\* volume = 0.
C5_AsStated ==
    PhysCalled =>
        /\ PArea # Whole(0) => POut.weightGsm = PGsm
        /\ PArea = Whole(0) => POut.weightGsm = Whole(0)
        /\ PVolume # Whole(0) => POut.density = PDensity
        /\ PVolume = Whole(0) => POut.density = Whole(0)

\* C5 as amended: arealWeight = weight / area whenever area > 0 and 0 whenever
\* area <= 0; density = mass / volume whenever volume > 0 and 0 whenever
\* volume <= 0; so width = 0 gives arealWeight = 0 and density = 0.
C5_PhysicalProperties ==
    PhysCalled =>
        /\ Gt(PArea, Whole(0)) => POut.weightGsm = PGsm
        /\ ~Gt(PArea, Whole(0)) => POut.weightGsm = Whole(0)
        /\ Gt(PVolume, Whole(0)) => POut.density = PDensity
        /\ ~Gt(PVolume, Whole(0)) => POut.density = Whole(0)
        /\ physIn.width = Whole(0) =>
              (POut.weightGsm = Whole(0) /\ POut.density = Whole(0))

\* 1000 mm x 1000 mm, 500 g, 1 mm: 500 g/m2 and 500 kg/m3
C5_Witness ==
    /\ PhysCalled
    /\ physIn = [thickness |-> Whole(1), weightRaw |-> Whole(500),
                 width |-> Whole(1000), length |-> Whole(1000)]
    /\ POut.weightGsm = Whole(500)
    /\ POut.density = Whole(500)

\* the degenerate case: width = 0 with a positive weight gives 0 and 0
C5_ZeroWidth ==
    /\ PhysCalled
    /\ physIn.width = Whole(0)
    /\ physIn.weightRaw = Whole(500)
    /\ POut = [weightGsm |-> Whole(0), density |-> Whole(0)]

----------------------------------------------------------------------------
(* Properties of appendToTemplate, under SpecMerge *)

Merged == mergeOut # <<>>
GIn == mergeIn.sheetData
GOut == mergeOut[1]
MArgs == mergeIn.args

\* the rows 0..15 that exist before the merge, and the longest of them
OldRows == {i \in 0..15 : i < Len(GIn)}
OldLen(i) == IF i < Len(GIn) THEN Len(At(GIn, i)) ELSE 0
MaxColCount ==
    IF OldRows = {} THEN 0
    ELSE CHOOSE m \in {OldLen(i) : i \in OldRows} : \A i \in OldRows : OldLen(i) <= m

\* v is x rounded to 2 decimals: a multiple of 1/100 within 1/200 of x
IsRounded2(v, x) ==
    /\ v.t = "number"
    /\ isFinite(NumOf(v))
    /\ Mul(NumOf(v), Whole(100)).d = 1
    /\ ~Gt(Mul(MathAbs(Sub(NumOf(v), x)), Whole(200)), Whole(1))

\* the value the specification puts in row i
IsExpectedValue(i, v) ==
    CASE i = 0  -> v = Str(MArgs.physical.evaluationDate)
      [] i = 1  -> v = Str(MArgs.sampleName)
      [] i = 2  -> IsRounded2(v, MArgs.calculated.weightGsm)
      [] i = 3  -> v = Num(MArgs.physical.thickness)
      [] i = 4  -> IsRounded2(v, MArgs.calculated.density)
      [] i = 5  -> v = Str(MArgs.physical.heatSourceTemp)
      [] i = 6  -> v = Str(MArgs.physical.pressure)
      [] i = 7  -> v = MArgs.metrics.timeTo100
      [] i = 8  -> v = MArgs.metrics.timeTo150
      [] i = 9  -> v = MArgs.metrics.timeTo180
      [] i = 10 -> v = MArgs.metrics.timeTo200
      [] i = 11 -> v = MArgs.metrics.tempAt1Min
      [] i = 12 -> v = MArgs.metrics.tempAt2Min
      [] i = 13 -> v = MArgs.metrics.tempAt5Min
      [] i = 14 -> v = MArgs.metrics.tempAt10Min
      [] i = 15 -> v = Str(MArgs.physical.remarks)

\* C6: after the merge every row 0..15 exists and has length maxColCount + 1,
\* maxColCount being the longest of the rows 0..15 that existed before; the
\* cell at column maxColCount of row i is the i-th of the 16 values, and the
\* cells added between the row's old end and that column are empty.
C6_AlignedColumn ==
    Merged =>
        LET maxColCount == MaxColCount IN
        \A i \in 0..15 :
            /\ i < Len(GOut)
            /\ Len(At(GOut, i)) = maxColCount + 1
            /\ IsExpectedValue(i, At(At(GOut, i), maxColCount))
            /\ \A j \in OldLen(i)..(maxColCount - 1) : At(At(GOut, i), j) = Null

\* a two-row sheet with rows of lengths 2 and 0: row 1 is padded with two empty
\* cells, row 2 is created and padded, all sixteen rows end at column 2
C6_Witness ==
    /\ Merged
    /\ Len(GIn) = 2
    /\ Len(At(GIn, 0)) = 2
    /\ Len(At(GIn, 1)) = 0
    /\ Len(GOut) = 16
    /\ At(GOut, 1) = <<Null, Null, Str(MArgs.sampleName)>>
    /\ At(At(GOut, 2), 2) = Num(Norm(833333, 100))
    /\ At(At(GOut, 9), 2) = NA

\* C7: the merge leaves the existing content alone: every row of index >= 16
\* keeps its length and cells, and in the rows 0..15 every cell that existed
\* keeps its column and its value; cells are only added to the right.
C7_ExistingContentKept ==
    Merged =>
        /\ Len(GOut) = Max2(Len(GIn), 16)
        /\ \A i \in 16..(Len(GIn) - 1) : At(GOut, i) = At(GIn, i)
        /\ \A i \in OldRows :
              /\ Len(At(GOut, i)) > Len(At(GIn, i))
              /\ \A j \in 0..(Len(At(GIn, i)) - 1) :
                    At(At(GOut, i), j) = At(At(GIn, i), j)

\* a sheet of 17 rows whose row 16 is longer than the merged rows, and whose
\* row 0 holds cells of its own
C7_Witness ==
    /\ Merged
    /\ Len(GIn) = 17
    /\ At(GIn, 0) = <<Str(<<"x">>), N(7)>>
    /\ Len(At(GIn, 16)) = 6
    /\ MaxColCount = 4
    /\ At(GOut, 16) = At(GIn, 16)
    /\ SubSeq(At(GOut, 0), 1, 2) = At(GIn, 0)

----------------------------------------------------------------------------
(* Properties of the application, under Spec *)

RequiredFields == {"sampleName", "refTemp", "thickness", "weightRaw",
                   "width", "length", "evaluationDate"}
NumericFields == {"refTemp", "thickness", "weightRaw", "width", "length"}
ValidationMsgs == {MsgFiles, MsgFields, MsgNumeric}

\* what the operator sees below the button: the message, in status ERROR only
ErrorBanner == IF status = "ERROR" THEN errorMsg ELSE <<>>

FileMissing == sourceFile = <<>> \/ templateFile = <<>>
FieldEmpty == \E f \in RequiredFields : form[f] = <<>>
NotFinite == \E f \in NumericFields : ~isFinite(parseFloat(form[f]))
NotANumber == \E f \in NumericFields : isNaN(parseFloat(form[f]))

\* C8: a run is rejected before any file read begins (no read is started, the
\* status does not become PROCESSING) whenever a file is missing, a required
\* field is empty or one of the five numeric fields does not parse as a finite
\* number; so a read only starts when the five numbers are finite.
C8_AsStated ==
    [][(status # "PROCESSING" /\ (FileMissing \/ FieldEmpty \/ NotFinite))
          => (status' # "PROCESSING" /\ trace' = trace /\ runs' = runs)]_vars

\* The part of C8 the code keeps: a missing file, an empty required field or a
\* numeric field that parses to NaN rejects the run before any read.
C8_NaNRejected ==
    [][(status # "PROCESSING" /\ (FileMissing \/ FieldEmpty \/ NotANumber))
          => (status' # "PROCESSING" /\ trace' = trace /\ runs' = runs)]_vars

\* C9: after a validation failure the message of that failure is the error
\* message shown on screen, whatever the status was when the run was requested.
C9_AsStated ==
    (errorMsg # <<>> /\ errorMsg[1] \in ValidationMsgs) => ErrorBanner = errorMsg

\* the runs the code allows, stage by stage
LegalRuns ==
    { <<"readLog:start", "readLog:done", "metrics:done", "merge:start", "merge:done">>,
      <<"readLog:start", "readLog:done", "metrics:done", "merge:start", "merge:fail">>,
      <<"readLog:start", "readLog:done", "metrics:fail">>,
      <<"readLog:start", "readLog:fail">> }

IsPrefix(p, t) == Len(p) <= Len(t) /\ SubSeq(t, 1, Len(p)) = p

\* C10: within a run the stages go in order and never overlap: the log read
\* ends before the metrics are computed, the template read starts only after
\* the metrics were produced; after a failed log read neither the metrics nor
\* the template read start, after a failed anchor search the template is never
\* read.
C10_StagesInOrder ==
    /\ \E t \in LegalRuns : IsPrefix(trace, t)
    /\ \A k \in DOMAIN runs :
          /\ runs[k].pc = "awaitLog" => trace = <<"readLog:start">>
          /\ runs[k].pc = "awaitTemplate" =>
                /\ trace = <<"readLog:start", "readLog:done", "metrics:done",
                             "merge:start">>
                /\ Len(runs[k].locals.thermalMetrics) = 1
    /\ runs = <<>> => (trace = <<>> \/ trace \in LegalRuns)

\* a run whose anchor search failed: it ended in ERROR without a template read
C10_Witness ==
    /\ trace = <<"readLog:start", "readLog:done", "metrics:fail">>
    /\ status = "ERROR"
    /\ errorMsg = <<AnchorNotFoundMsg>>
    /\ runs = <<>>

\* a run that went through all stages
C10_CompleteRun ==
    /\ trace = <<"readLog:start", "readLog:done", "metrics:done", "merge:start", "merge:done">>
    /\ status = "SUCCESS"
    /\ result # <<>>

\* the results panel and its download link, rendered in status SUCCESS only
ResultsPanel == IF status = "SUCCESS" /\ result # <<>> THEN result ELSE <<>>

CompleteRun ==
    <<"readLog:start", "readLog:done", "metrics:done", "merge:start", "merge:done">>

\* C11: partial results are never exposed: the result is non-null only when
\* the most recently started run went through all stages and ended in SUCCESS;
\* it is null while a run is in PROCESSING and after a run ended in ERROR, and
\* the results panel with its download link shows only in status SUCCESS.
C11_NoPartialResults ==
    /\ result # <<>> => (status = "SUCCESS" /\ runs = <<>> /\ trace = CompleteRun)
    /\ status = "PROCESSING" => result = <<>>
    /\ status = "ERROR" => result = <<>>
    /\ ResultsPanel # <<>> => (status = "SUCCESS" /\ ResultsPanel = result)

\* a run that had its metrics and failed in the template stage: nothing of it
\* is in the result
C11_Witness ==
    /\ trace = <<"readLog:start", "readLog:done", "metrics:done", "merge:start",
                 "merge:fail">>
    /\ status = "ERROR"
    /\ result = <<>>
    /\ ResultsPanel = <<>>

\* the failure of the step a waiting run takes when its reader loads: the
\* error XLSX.read throws, or the one processThermalData throws
ThrownOnLoad(r) ==
    IF r.pc = "awaitLog"
    THEN IF ~r.locals.sourceFile.decodes THEN <<MsgParse>>
         ELSE LET thermal == processThermalData(
                      readExcelColumn(r.locals.sourceFile.sheet, 3),
                      r.locals.refTempNum)
              IN  IF thermal.threw THEN <<AnchorNotFoundMsg>> ELSE <<>>
    ELSE IF ~r.locals.templateFile.decodes THEN <<MsgParse>> ELSE <<>>

\* the run ended in ERROR showing message m, and nothing was started again
EndsShowing(m) ==
    /\ status' = "ERROR"
    /\ errorMsg' = m
    /\ ErrorBanner' = m
    /\ runs' = <<>>
    /\ trace'[Len(trace')] \in {"readLog:fail", "metrics:fail", "merge:fail"}

\* C12: when a stage of a run fails (the reader reports an error, XLSX.read
\* throws on the log or the template, or no anchor is found) the message shown
\* is exactly the message of that failure, the status becomes ERROR and
\* nothing is retried.
C12_AsStated ==
    [][/\ (LogReaderError \/ TemplateReaderError)
            => EndsShowing(<<ReaderErrorMessage>>)
       /\ \A k \in DOMAIN runs :
            ((LogReaderLoad \/ TemplateReaderLoad) /\ ThrownOnLoad(runs[k]) # <<>>)
                => EndsShowing(ThrownOnLoad(runs[k]))]_vars

\* What holds of the code: a thrown error (ParseFailure, AnchorNotFound) is
\* shown with its own message; a failure the reader reports ends the run in
\* ERROR with the default message.
C12_ThrownShownVerbatim ==
    [][/\ (LogReaderError \/ TemplateReaderError) => EndsShowing(<<MsgUnknown>>)
       /\ \A k \in DOMAIN runs :
            ((LogReaderLoad \/ TemplateReaderLoad) /\ ThrownOnLoad(runs[k]) # <<>>)
                => EndsShowing(ThrownOnLoad(runs[k]))]_vars

----------------------------------------------------------------------------
(* Properties of readExcelColumn, under SpecRead *)

ReadDone == readOut # <<>>
Column == readOut[1]
ReadCell(i) == CellAt(At(readIn.jsonData, i), readIn.colIndex)
ReadIndices == 0..(Len(readIn.jsonData) - 1)

\* the text is a decimal numeral from its first to its last character
IsNumeral(s) ==
    LET body == IF s # <<>> /\ s[1] \in {"-", "+"} THEN Tail(s) ELSE s IN
    /\ \A j \in DOMAIN body : body[j] \in Digits \cup {"."}
    /\ \E j \in DOMAIN body : body[j] \in Digits
    /\ Cardinality({j \in DOMAIN body : body[j] = "."}) <= 1

\* a cell is numeric when it holds a number or a numeral
IsNumericCell(c) == c.t = "number" \/ (c.t = "string" /\ IsNumeral(c.s))

\* C13: readExcelColumn returns one entry per row of the grid, in row order:
\* the cell's number when the cell at the column index is numeric, and null
\* when the cell is missing, empty or non-numeric text, text that merely
\* begins with digits included; the call never fails on a cell.
C13_AsStated ==
    ReadDone =>
        /\ Len(Column) = Len(readIn.jsonData)
        /\ \A i \in ReadIndices :
              IF IsNumericCell(ReadCell(i))
              THEN At(Column, i) = Num(parseFloatCell(ReadCell(i)))
              ELSE At(Column, i) = Null

\* What holds of the code: one entry per row; numeric cells give their number,
\* missing and empty cells and text that does not begin with a numeral give
\* null.
C13_NumeralsAndBlanks ==
    ReadDone =>
        /\ Len(Column) = Len(readIn.jsonData)
        /\ \A i \in ReadIndices :
              /\ IsNumericCell(ReadCell(i))
                    => At(Column, i) = Num(parseFloatCell(ReadCell(i)))
              /\ ReadCell(i) \in {Null, Str(<<>>), NA} => At(Column, i) = Null

\* a text cell that begins with digits is read as the number it begins with
C13_LeadingDigits ==
    /\ ReadDone
    /\ \E i \in ReadIndices :
          /\ ReadCell(i) = Str(<<"1", "2", "a">>)
          /\ At(Column, i) = N(12)

----------------------------------------------------------------------------
(* Properties of the merged sheet read back, under SpecRoundTrip *)

ReadBackDone == Merged /\ ReadDone
\* the value appendToTemplate appended to row i
Appended(i) == At(At(GOut, i), MaxColCount)
AppendedRows == 0..15

\* C14 as stated: the column read back from the merged sheet reproduces the
\* 16 appended values exactly, texts and 'N/A' sentinels included.
C14_AsStated ==
    ReadBackDone =>
        /\ readIn.colIndex = MaxColCount
        /\ \A i \in AppendedRows : At(Column, i) = Appended(i)

\* C14, amended: reading the appended column back reproduces every appended
\* number exactly (areal weight and density as rounded to 2 decimals); an
\* 'N/A' sentinel or an empty text reads back as null, and no text value is
\* reproduced: it reads back as null or as the number it begins with.
C14_NumbersRoundTrip ==
    ReadBackDone =>
        /\ readIn.colIndex = MaxColCount
        /\ Len(Column) = Len(GOut)
        /\ \A i \in AppendedRows :
              /\ (Appended(i).t = "number" /\ ~isNaN(NumOf(Appended(i))))
                    => At(Column, i) = Appended(i)
              /\ Appended(i) \in {NA, Str(<<>>)} => At(Column, i) = Null
              /\ Appended(i).t = "string"
                    => At(Column, i).t \in {"null", "number"}

\* a merged sheet read back: the rounded areal weight 0 and the thickness
\* come back as written, the 'N/A' of timeTo180 and the sample name come back
\* null, the date comes back as its year
C14_Witness ==
    /\ ReadBackDone
    /\ Len(GIn) > 16
    /\ MaxColCount > 0
    /\ Appended(2) = N(0) /\ At(Column, 2) = N(0)
    /\ At(Column, 3) = Num(MArgs.physical.thickness)
    /\ Appended(9) = NA /\ At(Column, 9) = Null
    /\ Appended(1) = Str(<<"S", "1">>) /\ At(Column, 1) = Null
    /\ Appended(0) = Str(Today) /\ At(Column, 0) = N(2024)

----------------------------------------------------------------------------
(* Termination of a run, under FairSpec *)

----------------------------------------------------------------------------
(* One run at a time, under Spec *)

\* C16: at most one run is in flight: while the status is PROCESSING, with a
\* run awaiting one of its file reads, no second handleProcess starts, so
\* there is never an older run left to write over a newer one's result.
C16_OneRunInFlight ==
    /\ Len(runs) <= 1
    /\ runs # <<>> <=> status = "PROCESSING"

\* a run awaits its template read while the files and fields on screen would
\* pass validation again: only the disabled button keeps a second run out
C16_Witness ==
    /\ status = "PROCESSING"
    /\ Len(runs) = 1
    /\ runs[1].pc = "awaitTemplate"
    /\ validate(sourceFile, templateFile, form) = <<>>
    /\ form # runs[1].locals.form

----------------------------------------------------------------------------
(* A run and the inputs it started with, under Spec *)

\* the files and field texts a run holds
Snapshot(r) ==
    [sourceFile |-> r.locals.sourceFile, templateFile |-> r.locals.templateFile,
     form |-> r.locals.form]

\* the result of the whole pipeline on given files and field texts
Published(in) ==
    LET physicalInputs ==
            [thickness |-> parseFloat(in.form["thickness"]),
             weightRaw |-> parseFloat(in.form["weightRaw"]),
             width |-> parseFloat(in.form["width"]),
             length |-> parseFloat(in.form["length"]),
             heatSourceTemp |-> in.form["heatSourceTemp"],
             pressure |-> in.form["pressure"],
             evaluationDate |-> in.form["evaluationDate"],
             remarks |-> in.form["remarks"]]
        calculatedProps == calculatePhysicalProperties(physicalInputs)
        thermalMetrics ==
            processThermalData(readExcelColumn(in.sourceFile.sheet, 3),
                               parseFloat(in.form["refTemp"])).metrics[1]
    IN  [sampleName |-> in.form["sampleName"],
         thermalMetrics |-> thermalMetrics,
         physicalInputs |-> physicalInputs,
         calculatedProps |-> calculatedProps,
         downloadUrl |-> appendToTemplate(in.templateFile.sheet,
                             in.form["sampleName"], thermalMetrics,
                             physicalInputs, calculatedProps),
         newFilename |-> NewFilename]

\* C17: a run works on the inputs as they were when it started: it takes the
\* files and field texts of the moment of the click, keeps them whatever the
\* operator edits, replaces or clears while the status is PROCESSING, and the
\* result it publishes is the pipeline's result on exactly those inputs.
C17_SnapshotOfInputs ==
    [][/\ (status # "PROCESSING" /\ status' = "PROCESSING")
            => (/\ sourceFile # <<>> /\ templateFile # <<>>
                /\ Snapshot(runs'[1]) = [sourceFile |-> sourceFile[1],
                                         templateFile |-> templateFile[1],
                                         form |-> form])
       /\ (runs # <<>> /\ runs' # <<>>) => Snapshot(runs'[1]) = Snapshot(runs[1])
       /\ (status = "PROCESSING" /\ status' = "SUCCESS")
            => result' = <<Published(Snapshot(runs[1]))>>]_vars

\* a published result next to inputs that were changed since the run started:
\* the sample name was emptied and both files were cleared
C17_Witness ==
    /\ status = "SUCCESS"
    /\ result # <<>>
    /\ result[1].sampleName = <<"S", "1">>
    /\ form["sampleName"] = <<>>
    /\ sourceFile = <<>>
    /\ templateFile = <<>>

\* a run about to publish while the inputs on screen differ from its own
C17_EditedInFlight ==
    /\ runs # <<>>
    /\ runs[1].pc = "awaitTemplate"
    /\ runs[1].locals.templateFile.decodes
    /\ form["sampleName"] # runs[1].locals.form["sampleName"]
    /\ sourceFile # <<runs[1].locals.sourceFile>>
    /\ templateFile # <<runs[1].locals.templateFile>>

====
